---- MODULE Spec2Model ----
(***************************************************************************)
(* A model of src/pandas.py: exploratory-data-analysis helpers over        *)
(* tables.  A table is a record                                            *)
(*   columns : the ordered column names,                                   *)
(*   index   : the row labels, one per row, in row order,                  *)
(*   dtypes  : column name -> dtype,                                       *)
(*   data    : column name -> the column's values in row order.            *)
(* Values are integers; NaN stands for a missing entry.  Every function of *)
(* the file is an operator from its arguments to an outcome record         *)
(*   df  : the table argument as the call leaves it (in-place effects),    *)
(*   ret : the value returned, or the error raised,                        *)
(*   log : the messages handed to LOG during the call,                     *)
(* and one action per function applies it to the caller's table.           *)
(***************************************************************************)
EXTENDS Integers, Sequences, FiniteSets, TLC

VARIABLES
    frame,       \* the caller's table, as the last call left it
    old,         \* the caller's table as it was when the last call began
    op,          \* the last call: the function's name and its arguments
    ret,         \* what the last call returned or raised
    log,         \* the messages the last call handed to LOG.info
    stdout,      \* the lines the last call printed
    dataframes,  \* the list of tables handed to common_columns
    gen,         \* the generator object common_columns returned
    figure       \* the matplotlib figure the last qqplot call built

vars == <<frame, old, op, ret, log, stdout, dataframes, gen, figure>>

----------------------------------------------------------------------------
(* Bounds of the model.                                                    *)

MaxCols == 3
MaxRows == 3
MaxReq == 2
MaxCells == 4
MaxVal == 2
MaxSampleRows == 7
MaxFrames == 3
MaxCommonNames == 2
MaxPlotCols == 11
MaxInfoRows == 20

----------------------------------------------------------------------------
(* Tables.                                                                 *)

NaN == -1000

ColName == <<"a", "b", "c", "d", "e", "f", "g", "h", "i", "j", "k", "l", "m", "n">>

Names(n) == {ColName[i] : i \in 1..n}

NameIdx(c) == CHOOSE i \in DOMAIN ColName : ColName[i] = c

Range(s) == {s[i] : i \in DOMAIN s}

SeqsUpTo(S, n) == UNION {[1..k -> S] : k \in 0..n}

NoDup(s) == \A i, j \in DOMAIN s : s[i] = s[j] => i = j

NRow(t) == Len(t.index)

NCol(t) == Len(t.columns)

EmptyTable == [columns |-> <<>>, index |-> <<>>, dtypes |-> <<>>, data |-> <<>>]

\* Position of the first occurrence of name c in the column list.
ColPos(t, c) == CHOOSE i \in DOMAIN t.columns :
                    t.columns[i] = c /\ \A j \in 1..(i - 1) : t.columns[j] # c

None == [kind |-> "none"]

Raise(e) == [kind |-> "raise", error |-> e]

Outcome(df, r, l) == [df |-> df, ret |-> r, log |-> l]

NoCall == [name |-> "none"]

NoGen == [state |-> "none"]

NoFigure == [kind |-> "none"]

----------------------------------------------------------------------------
(* DataFrame.__getitem__ with a list of names, and DataFrame.drop.         *)

HasAll(t, columns) == Range(columns) \subseteq Range(t.columns)

\* frame[columns]: the named columns, in the order asked (a name asked twice
\* is taken twice); the rows and their labels are those of the table.
GetColumns(t, columns) ==
    [columns |-> columns,
     index   |-> t.index,
     dtypes  |-> [c \in Range(columns) |-> t.dtypes[c]],
     data    |-> [c \in Range(columns) |-> t.data[c]]]

KeepAll(t, columns) == t

\* frame.drop(columns=columns): every column not named, in the table's order.
DropNamed(t, columns) ==
    LET keep == SelectSeq(t.columns, LAMBDA c : c \notin Range(columns))
    IN  [columns |-> keep,
         index   |-> t.index,
         dtypes  |-> [c \in Range(keep) |-> t.dtypes[c]],
         data    |-> [c \in Range(keep) |-> t.data[c]]]

----------------------------------------------------------------------------
(* column_cut                                                              *)

column_cut(df, columns) ==
    IF ~HasAll(df, columns)
    THEN Outcome(df, Raise("KeyError"), <<>>)
    ELSE Outcome(df,
                 [kind |-> "pair",
                  df1 |-> GetColumns(df, columns),
                  df2 |-> DropNamed(df, columns)],
                 <<>>)

----------------------------------------------------------------------------
(* drop_columns                                                            *)

NeverEmpty(df) == FALSE

\* The guard of the early return: the table has no column.
NoColumns(df) == NCol(df) = 0

\* df.drop(columns=columns, inplace=inplace): with inplace the table itself
\* loses the columns and the call returns None, otherwise the table is left
\* alone and a new one is returned.
PandasDrop(df, columns, inplace) ==
    IF inplace
    THEN [df |-> DropNamed(df, columns), res |-> None]
    ELSE [df |-> df, res |-> [kind |-> "table", is_arg |-> FALSE,
                              table |-> DropNamed(df, columns)]]

drop_columns(df, columns, inplace) ==
    IF NoColumns(df)
    THEN Outcome(df, [kind |-> "table", is_arg |-> TRUE, table |-> df], <<>>)
    ELSE IF ~HasAll(df, columns)
    THEN Outcome(df, Raise("KeyError"), <<>>)
    ELSE LET d == PandasDrop(df, columns, inplace)
         IN  IF d.res.kind = "none"
             \* res.shape on None
             THEN Outcome(d.df, Raise("AttributeError"), <<>>)
             ELSE LET msg == [ncol |-> NCol(d.res.table), dropped |-> Len(columns)]
                  IN  Outcome(d.df,
                              IF inplace
                              THEN [kind |-> "table", is_arg |-> TRUE, table |-> d.df]
                              ELSE d.res,
                              <<msg>>)

----------------------------------------------------------------------------
(* The column helpers as a state machine: a caller holding one table calls *)
(* column_cut and drop_columns on it, again and again.                     *)

CellId(c, i) == 10 * NameIdx(c) + i

\* A table whose cells are all different, so that a misplaced value shows.
ColumnTable(cols, n) ==
    [columns |-> cols,
     index   |-> [i \in 1..n |-> i - 1],
     dtypes  |-> [c \in Range(cols) |-> "int64"],
     data    |-> [c \in Range(cols) |-> [i \in 1..n |-> CellId(c, i)]]]

ColumnTables ==
    {ColumnTable(cols, n) :
        cols \in {s \in SeqsUpTo(Names(MaxCols), MaxCols) : NoDup(s)},
        n \in 0..MaxRows}

\* The lists of names a caller asks for: names of the table and one name it
\* does not have, repeated or not.
RequestsFor(t) == SeqsUpTo(Range(t.columns) \cup {ColName[MaxCols + 1]}, MaxReq)

Idle ==
    /\ op = NoCall
    /\ ret = None
    /\ log = <<>>
    /\ stdout = <<>>
    /\ gen = NoGen
    /\ figure = NoFigure

InitColumns ==
    /\ frame \in ColumnTables
    /\ old = frame
    /\ dataframes = <<>>
    /\ Idle

\* The caller is ready for a call when it holds no pending result.
Ready == op = NoCall

Apply(call, o) ==
    /\ old' = frame
    /\ op' = call
    /\ frame' = o.df
    /\ ret' = o.ret
    /\ log' = o.log

ColumnCut ==
    /\ Ready
    /\ \E columns \in RequestsFor(frame) :
        /\ Apply([name |-> "column_cut", columns |-> columns],
                 column_cut(frame, columns))
        /\ UNCHANGED <<stdout, dataframes, gen, figure>>

DropColumns ==
    /\ Ready
    /\ \E columns \in RequestsFor(frame), inplace \in BOOLEAN :
        /\ Apply([name |-> "drop_columns", columns |-> columns, inplace |-> inplace],
                 drop_columns(frame, columns, inplace))
        /\ UNCHANGED <<stdout, dataframes, gen, figure>>

\* The caller lets go of what the last call returned and keeps its table.
Forget ==
    /\ op # NoCall
    /\ op' = NoCall
    /\ old' = frame
    /\ ret' = None
    /\ log' = <<>>
    /\ stdout' = <<>>
    /\ gen' = NoGen
    /\ figure' = NoFigure
    /\ UNCHANGED <<frame, dataframes>>

NextColumns == ColumnCut \/ DropColumns \/ Forget

SpecColumns == InitColumns /\ [][NextColumns]_vars

----------------------------------------------------------------------------
(* Claims about column_cut and drop_columns, checked under SpecColumns.    *)

CutCalled == op.name = "column_cut" /\ HasAll(old, op.columns)

\* C1: column_cut(frame, columns), for names of the table, returns (df1, df2)
\* where df1 holds the requested columns in the order requested, df2 holds
\* every other column in the table's order, both with the table's values and
\* row labels; the two share no name and together hold the table's names.
C1_ColumnCutPartition ==
    CutCalled =>
        /\ ret.kind = "pair"
        /\ frame = old
        /\ ret.df1.columns = op.columns
        /\ ret.df1.index = old.index /\ ret.df2.index = old.index
        /\ \A c \in Range(ret.df1.columns) : ret.df1.data[c] = old.data[c]
        /\ \A c \in Range(ret.df2.columns) : ret.df2.data[c] = old.data[c]
        /\ NoDup(ret.df2.columns)
        /\ \A i, j \in DOMAIN ret.df2.columns :
               i < j => ColPos(old, ret.df2.columns[i]) < ColPos(old, ret.df2.columns[j])
        /\ Range(ret.df1.columns) \cap Range(ret.df2.columns) = {}
        /\ Range(ret.df1.columns) \cup Range(ret.df2.columns) = Range(old.columns)

\* Two columns asked for in the reverse of the table's order, one left over,
\* and rows to carry.
C1_Witness ==
    /\ CutCalled
    /\ ret.kind = "pair"
    /\ NCol(old) = 3 /\ NRow(old) = 2
    /\ Len(op.columns) = 2 /\ NoDup(op.columns)
    /\ ColPos(old, op.columns[1]) > ColPos(old, op.columns[2])
    /\ NCol(ret.df2) = 1

DropCalled == op.name = "drop_columns"

\* C3: drop_columns on a table with at least one column, every requested
\* name present, returns a table without the named columns for both values of
\* inplace: the original object, mutated, with inplace; a new table, the
\* original keeping its columns, without; and logs its message in both cases.
C3_DropReturnsTable ==
    (DropCalled /\ NCol(old) > 0 /\ HasAll(old, op.columns)) =>
        /\ ret.kind = "table"
        /\ Range(ret.table.columns) = Range(old.columns) \ Range(op.columns)
        /\ op.inplace => (ret.is_arg /\ frame = ret.table)
        /\ ~op.inplace => (~ret.is_arg /\ frame = old)
        /\ Len(log) = 1

\* C7: drop_columns on a table with zero columns returns that same table
\* unchanged, without raising, whatever the drop list and the inplace flag.
C7_DropZeroColumns ==
    (DropCalled /\ NCol(old) = 0) =>
        /\ ret.kind = "table"
        /\ ret.is_arg
        /\ ret.table = old
        /\ frame = old
        /\ log = <<>>

\* A zero-column table with rows, a non-empty drop list, in place.
C7_Witness ==
    /\ DropCalled
    /\ NCol(old) = 0 /\ NRow(old) > 0
    /\ op.columns # <<>>
    /\ op.inplace
    /\ ret.kind = "table"

----------------------------------------------------------------------------
(* categorize                                                              *)

RECURSIVE Uniques(_)
\* pd.factorize's second result: the distinct values in order of first
\* appearance, missing entries left out.
Uniques(vals) ==
    IF vals = <<>> THEN <<>>
    ELSE LET n == Len(vals)
             u == Uniques(SubSeq(vals, 1, n - 1))
         IN  IF vals[n] = NaN \/ vals[n] \in Range(u) THEN u ELSE Append(u, vals[n])

IndexOf(u, v) == CHOOSE i \in DOMAIN u : u[i] = v

CodeOneBased(u, v) == IF v = NaN THEN -1 ELSE IndexOf(u, v)

\* The code of one value: its 0-based place in the uniques, -1 when missing.
CodeOf(u, v) == IF v = NaN THEN -1 ELSE IndexOf(u, v) - 1

\* pd.factorize's first result.
Codes(vals) == [i \in DOMAIN vals |-> CodeOf(Uniques(vals), vals[i])]

DtypeArgs == {"None", "int8", "uint8"}

\* ndarray.astype on integer codes: the value modulo the width.
AsType(v, dtype) ==
    CASE dtype = "int8"  -> ((v + 128) % 256) - 128
      [] dtype = "uint8" -> v % 256
      [] OTHER           -> v

\* One pass of the loop body for column c.
CategorizeColumn(t, c, dtype) ==
    [t EXCEPT !.data[c] = [i \in DOMAIN Codes(t.data[c]) |->
                               AsType(Codes(t.data[c])[i], dtype)],
              !.dtypes[c] = IF dtype = "None" THEN "int64" ELSE dtype]

Put(uniques, c, u) ==
    [k \in DOMAIN uniques \cup {c} |-> IF k = c THEN u ELSE uniques[k]]

RECURSIVE CategorizeLoop(_, _, _, _)
\* The for loop from its position: the table and the dict so far, the names
\* still to process.  frame[c] on an absent name raises with the columns
\* before it already encoded.
CategorizeLoop(t, uniques, columns, dtype) ==
    IF columns = <<>>
    THEN Outcome(t, [kind |-> "uniques", uniques |-> uniques], <<>>)
    ELSE LET c == Head(columns)
         IN  IF c \notin Range(t.columns)
             THEN Outcome(t, Raise("KeyError"), <<>>)
             ELSE CategorizeLoop(CategorizeColumn(t, c, dtype),
                                 Put(uniques, c, Uniques(t.data[c])),
                                 Tail(columns), dtype)

categorize(df, columns, dtype) == CategorizeLoop(df, <<>>, columns, dtype)

----------------------------------------------------------------------------
(* categorize as a state machine: a caller encodes columns of its table,   *)
(* possibly columns a previous call already encoded.                       *)

CatValues == {NaN} \cup 1..MaxVal

\* The dtype pandas infers for a column of these values.
InferDtype(vals) ==
    IF vals = <<>> THEN "object"
    ELSE IF NaN \in Range(vals) THEN "float64" ELSE "int64"

DataTable(cols, dat) ==
    LET n == IF cols = <<>> THEN 0 ELSE Len(dat[cols[1]])
    IN  [columns |-> cols,
         index   |-> [i \in 1..n |-> i - 1],
         dtypes  |-> [c \in Range(cols) |-> InferDtype(dat[c])],
         data    |-> dat]

FirstNames(k) == [i \in 1..k |-> ColName[i]]

\* Every table of at most MaxCols columns and MaxRows rows holding at most
\* MaxCells cells.
CatTables ==
    UNION {{DataTable(FirstNames(k), dat) : dat \in [Names(k) -> [1..n -> CatValues]]} :
              <<k, n>> \in {sh \in (1..MaxCols) \X (0..MaxRows) : sh[1] * sh[2] <= MaxCells}}

InitCategorize ==
    /\ frame \in CatTables
    /\ old = frame
    /\ dataframes = <<>>
    /\ Idle

Categorize ==
    /\ Ready
    /\ \E columns \in RequestsFor(frame), dtype \in DtypeArgs :
        /\ Apply([name |-> "categorize", columns |-> columns, dtype |-> dtype],
                 categorize(frame, columns, dtype))
        /\ UNCHANGED <<stdout, dataframes, gen, figure>>

NextCategorize == Categorize \/ Forget

SpecCategorize == InitCategorize /\ [][NextCategorize]_vars

----------------------------------------------------------------------------
(* Claims about categorize, checked under SpecCategorize.                  *)

Categorized == op.name = "categorize" /\ ret.kind = "uniques"

Rows(t) == 1..NRow(t)

Occurrences(columns, c) == Cardinality({i \in DOMAIN columns : columns[i] = c})

\* The code written at row r of column c is a place of the returned decode
\* sequence for c, and that place holds the value the column had before.
Decodes(c, r) ==
    LET u == ret.uniques[c]
        i == frame.data[c][r]
    IN  /\ i \in 0..(Len(u) - 1)
        /\ u[i + 1] = old.data[c][r]

\* C2 as stated: after categorize(frame, columns), for every name c in
\* columns and every row r, the code written at (c, r) indexes the original
\* value in the decode sequence returned for c.
C2_EveryCodeDecodes ==
    Categorized => \A c \in Range(op.columns) : \A r \in Rows(old) : Decodes(c, r)

\* C2 as amended: for every name listed once in columns, every row whose
\* original value is not missing carries a code that indexes that value in
\* the decode sequence, which holds no value twice (decode then encode gives
\* the code back); a row whose original value is missing carries the
\* sentinel -1, as the storage type renders it.
C2_PresentCodesDecode ==
    Categorized =>
        \A c \in Range(op.columns) :
            Occurrences(op.columns, c) = 1 =>
                /\ NoDup(ret.uniques[c])
                /\ \A r \in Rows(old) :
                       IF old.data[c][r] = NaN
                       THEN frame.data[c][r] = AsType(-1, op.dtype)
                       ELSE Decodes(c, r)

\* Two columns encoded in one call, one of them with a repeated and a unique
\* value, the other with a missing entry.
C2_Witness ==
    /\ Categorized
    /\ Len(op.columns) = 2 /\ NoDup(op.columns)
    /\ NRow(old) = 2
    /\ \E c \in Range(op.columns) : NaN \in Range(old.data[c])
    /\ \E c \in Range(op.columns) :
           /\ NaN \notin Range(old.data[c])
           /\ Len(ret.uniques[c]) = 2
           /\ frame.data[c] # old.data[c]

----------------------------------------------------------------------------
(* negative_down_sample                                                    *)

\* The positions (1-based) of the rows whose target equals v:
\* data[data[target] == v].  A missing entry equals nothing.
RowsEqual(data, target, v) ==
    {i \in 1..NRow(data) : data.data[target][i] = v /\ data.data[target][i] # NaN}

FracAtLeastOne(npos, nall) == npos >= nall - npos

\* frac = pos_ratio / (1 - pos_ratio) > 1, for pos_ratio = npos / nall < 1:
\* DataFrame.sample refuses it without replacement.
FracExceedsOne(npos, nall) == npos > nall - npos

SizesByRatio(npos, nneg, nall) == {(2 * npos * nneg + nall) \div (2 * nall)}

\* round(frac * len(neg rows)), frac = npos / (nall - npos) computed in double
\* precision.  Off a tie it is the nearest integer; on a tie (x.5 exactly)
\* the rounding error of the double product decides, to either side
\* (npos, nneg, nall = 2, 3, 6 gives 1; 3, 2, 7 gives 2).
SampleSizes(npos, nneg, nall) ==
    LET d == nall - npos
        q == (npos * nneg) \div d
        r == (npos * nneg) % d
    IN  IF 2 * r < d THEN {q}
        ELSE IF 2 * r > d THEN {q + 1}
        ELSE {q, q + 1}

\* The row sets DataFrame.sample may pick: without replacement, of the size
\* asked, any of them (random_state decides).
SampleChoices(negrows, npos, nall) ==
    {S \in SUBSET negrows : Cardinality(S) \in SampleSizes(npos, Cardinality(negrows), nall)}

\* The labels of the rows at the given positions, in row order.
LabelsAt(data, rows) ==
    LET keep == SelectSeq([i \in 1..NRow(data) |-> i], LAMBDA i : i \in rows)
    IN  [k \in DOMAIN keep |-> data.index[keep[k]]]

RECURSIVE SortedSeq(_)
\* The elements of a set of integers in ascending order.
SortedSeq(S) ==
    IF S = {} THEN <<>>
    ELSE LET m == CHOOSE x \in S : \A y \in S : x <= y
         IN  <<m>> \o SortedSeq(S \ {m})

IndexConcat(a, b) == a \o b

\* pos_data.index.union(neg_data.index).sort_values(): each label once,
\* ascending.
IndexUnionSorted(a, b) == SortedSeq(Range(a) \cup Range(b))

RowOfLabel(data, l) == CHOOSE i \in 1..NRow(data) : data.index[i] = l

\* data.loc[index]: the rows carrying the labels, in the order of the labels.
Loc(data, labels) ==
    [columns |-> data.columns,
     index   |-> labels,
     dtypes  |-> data.dtypes,
     data    |-> [c \in Range(data.columns) |->
                     [k \in DOMAIN labels |-> data.data[c][RowOfLabel(data, labels[k])]]]]

\* What stops the call before it samples, "" when nothing does.
SampleError(data, target) ==
    IF target \notin Range(data.columns) THEN "KeyError"
    ELSE IF NRow(data) = 0 THEN "ZeroDivisionError"
    ELSE ""

\* pick: the rows (positions) DataFrame.sample takes from the rows whose
\* target equals neg (Picks below lists the picks open to it).
negative_down_sample(data, target, pos, neg, pick) ==
    IF SampleError(data, target) # ""
    THEN Outcome(data, Raise(SampleError(data, target)), <<>>)
    ELSE LET posrows == RowsEqual(data, target, pos)
             npos == Cardinality(posrows)
             nall == NRow(data)
         IN  IF npos = nall
             \* 1 - pos_ratio = 0.0
             THEN Outcome(data, Raise("ZeroDivisionError"), <<>>)
             ELSE IF FracExceedsOne(npos, nall)
             THEN Outcome(data, Raise("ValueError"), <<>>)
             ELSE LET index == IndexUnionSorted(LabelsAt(data, posrows),
                                                LabelsAt(data, pick))
                  IN  Outcome(data,
                              [kind |-> "table", is_arg |-> FALSE,
                               table |-> Loc(data, index)],
                              <<>>)

\* The picks open to DataFrame.sample in this call; the empty pick stands for
\* a call that fails before sampling.
Picks(data, target, pos, neg) ==
    IF SampleError(data, target) # "" THEN {{}}
    ELSE LET npos == Cardinality(RowsEqual(data, target, pos))
         IN  IF npos = NRow(data) \/ FracExceedsOne(npos, NRow(data)) THEN {{}}
             ELSE SampleChoices(RowsEqual(data, target, neg), npos, NRow(data))

----------------------------------------------------------------------------
(* negative_down_sample as a state machine.                                *)

TargetValues == {0, 1, 2}

\* Row labels ascending (a fresh table) or descending (a reversed one).
SampleTable(vals, ascending) ==
    LET n == Len(vals)
    IN  [columns |-> <<"TARGET">>,
         index   |-> [i \in 1..n |-> IF ascending THEN i - 1 ELSE n - i],
         dtypes  |-> [c \in {"TARGET"} |-> "int64"],
         data    |-> [c \in {"TARGET"} |-> vals]]

SampleTables ==
    {SampleTable(vals, asc) : vals \in SeqsUpTo(TargetValues, MaxSampleRows),
                              asc \in BOOLEAN}

InitSample ==
    /\ frame \in SampleTables
    /\ old = frame
    /\ dataframes = <<>>
    /\ Idle

NegativeDownSample ==
    /\ Ready
    /\ \E target \in {"TARGET", "a"}, pos \in {0, 1}, neg \in {0, 1} :
        \E pick \in Picks(frame, target, pos, neg) :
            /\ Apply([name |-> "negative_down_sample", target |-> target,
                      pos |-> pos, neg |-> neg, pick |-> pick],
                     negative_down_sample(frame, target, pos, neg, pick))
            /\ UNCHANGED <<stdout, dataframes, gen, figure>>

NextSample == NegativeDownSample \/ Forget

SpecSample == InitSample /\ [][NextSample]_vars

----------------------------------------------------------------------------
(* Claims about negative_down_sample, checked under SpecSample.            *)

Sampled == op.name = "negative_down_sample" /\ op.target \in Range(old.columns)

OldPos == RowsEqual(old, op.target, op.pos)

OldNeg == RowsEqual(old, op.target, op.neg)

NPos == Cardinality(OldPos)

NNeg == Cardinality(OldNeg)

\* Only the positive and the negative value occur, and they differ.
Binary == op.pos # op.neg /\ NPos + NNeg = NRow(old)

CountIn(t, v) == Cardinality(RowsEqual(t, op.target, v))

Abs(x) == IF x < 0 THEN -x ELSE x

\* C4 as stated: for a table of positive and negative rows only with positive
\* fraction p <= 0.5, the output's positive fraction stays about p (here:
\* within 0.1 of p): the skew is reproduced, the classes are not balanced.
C4_FractionKept ==
    (Sampled /\ Binary /\ 0 < NPos /\ NPos <= NNeg) =>
        /\ ret.kind = "table"
        /\ 10 * Abs(CountIn(ret.table, op.pos) * NRow(old) - NPos * NRow(ret.table))
               <= NRow(old) * NRow(ret.table)

\* C4 as amended: for such a table the output holds all P positive rows and
\* exactly P negative rows: the classes are balanced, the output's positive
\* fraction is 0.5 whatever p was.
C4_Balanced ==
    (Sampled /\ Binary /\ 0 < NPos /\ NPos <= NNeg) =>
        /\ ret.kind = "table"
        /\ CountIn(ret.table, op.pos) = NPos
        /\ CountIn(ret.table, op.neg) = NPos
        /\ NRow(ret.table) = 2 * NPos

\* Two positive rows among five negative ones: p = 2/7.
C4_Witness ==
    /\ Sampled /\ Binary
    /\ NPos = 2 /\ NNeg = 5
    /\ ret.kind = "table"
    /\ NRow(ret.table) = 4

\* C6: the call fails, returning no table and leaving its input alone,
\* whenever the positive rows are more than half of all rows (the sampling
\* fraction exceeds 1); with at most half of the rows positive, in a table
\* that has rows, it returns a table.
C6_OversampleFails ==
    Sampled =>
        /\ 2 * NPos > NRow(old) => (ret.kind = "raise" /\ frame = old)
        /\ (NRow(old) > 0 /\ 2 * NPos <= NRow(old)) => ret.kind = "table"

\* Positive rows in the majority, negative rows present: the fraction is
\* above 1 and finite.
C6_Witness ==
    /\ Sampled /\ Binary
    /\ NPos = 3 /\ NNeg = 2
    /\ ret = Raise("ValueError")

Ascending(s) == \A i, j \in DOMAIN s : i < j => s[i] < s[j]

\* C10: a successful call returns exactly the positive rows and the sampled
\* negative rows, each once, none whose outcome is neither value, in
\* ascending order of their row labels, each with the content it had.
C10_PositivesAndSample ==
    (Sampled /\ ret.kind = "table") =>
        /\ op.pick \subseteq OldNeg
        /\ Range(ret.table.index) =
               {old.index[i] : i \in OldPos} \cup {old.index[i] : i \in op.pick}
        /\ Ascending(ret.table.index)
        /\ \A k \in 1..NRow(ret.table) :
               /\ ret.table.data[op.target][k] \in {op.pos, op.neg}
               /\ \E i \in 1..NRow(old) :
                      /\ old.index[i] = ret.table.index[k]
                      /\ \A c \in Range(old.columns) :
                             ret.table.data[c][k] = old.data[c][i]

\* Rows of a third outcome present, labels descending, some negative rows
\* sampled and some not.
C10_Witness ==
    /\ Sampled /\ ret.kind = "table"
    /\ NRow(old) = 6 /\ old.index[1] = 5
    /\ NPos = 2 /\ NNeg = 3
    /\ Cardinality(op.pick) = 1
    /\ NRow(ret.table) = 3

----------------------------------------------------------------------------
(* common_columns: a generator.  Calling it runs none of its body; each    *)
(* next() runs it to the next yield, or to its end (StopIteration).        *)

ColumnUnion(df1, df2) == Range(df1.columns) \cup Range(df2.columns)

\* set(df1.columns) & set(df2.columns)
Intersection(df1, df2) == Range(df1.columns) \cap Range(df2.columns)

\* itertools.combinations(pool, 2) keeps two 0-based indices into the pool,
\* <<0, 1>> at first.
CombFirst(n) == IF n < 2 THEN <<>> ELSE <<0, 1>>

\* Its step: the rightmost index not yet at its last place (place k may reach
\* k + n - 2) moves up by one and the index after it follows; with none to
\* move the iterator ends (<<>>).
CombNext(ind, n) ==
    IF ind[2] # n - 1 THEN <<ind[1], ind[2] + 1>>
    ELSE IF ind[1] # n - 2 THEN <<ind[1] + 1, ind[1] + 2>>
    ELSE <<>>

\* The value yielded for a pair of indices: ((i1, i2), intersection).
Yielded(dfs, ind) ==
    [pair |-> ind, columns |-> Intersection(dfs[ind[1] + 1], dfs[ind[2] + 1])]

\* The generator common_columns(dataframes) returns, its body not begun.
common_columns(dfs) ==
    [state |-> "created", pool |-> dfs, indices |-> <<>>, out |-> <<>>]

\* next(g): the generator after the step, and what the step gave the caller.
GenStep(g) ==
    LET ind == IF g.state = "created" THEN CombFirst(Len(g.pool))
               ELSE IF g.state = "suspended" THEN CombNext(g.indices, Len(g.pool))
               ELSE <<>>
    IN  IF ind = <<>>
        THEN [gen |-> [g EXCEPT !.state = "exhausted", !.indices = <<>>],
              ret |-> Raise("StopIteration")]
        ELSE [gen |-> [g EXCEPT !.state = "suspended", !.indices = ind,
                                !.out = Append(g.out, Yielded(g.pool, ind))],
              ret |-> [kind |-> "yield", value |-> Yielded(g.pool, ind)]]

----------------------------------------------------------------------------
(* common_columns as a state machine: the caller makes the generator and   *)
(* draws from it.                                                          *)

CommonTables ==
    {ColumnTable(cols, 0) :
        cols \in {s \in SeqsUpTo(Names(MaxCommonNames), MaxCommonNames) : NoDup(s)}}

InitCommon ==
    /\ frame = EmptyTable
    /\ old = frame
    /\ dataframes \in SeqsUpTo(CommonTables, MaxFrames)
    /\ Idle

CommonColumns ==
    /\ Ready
    /\ op' = [name |-> "common_columns"]
    /\ gen' = common_columns(dataframes)
    /\ ret' = [kind |-> "generator"]
    /\ UNCHANGED <<frame, old, log, stdout, dataframes, figure>>

GenNext ==
    /\ gen.state \in {"created", "suspended", "exhausted"}
    /\ gen' = GenStep(gen).gen
    /\ ret' = GenStep(gen).ret
    /\ UNCHANGED <<frame, old, op, log, stdout, dataframes, figure>>

NextCommon == CommonColumns \/ GenNext \/ Forget

SpecCommon == InitCommon /\ [][NextCommon]_vars

----------------------------------------------------------------------------
(* Claims about common_columns, checked under SpecCommon.                  *)

Drawing == gen.state \in {"suspended", "exhausted"}

LexBefore(p, q) == p[1] < q[1] \/ (p[1] = q[1] /\ p[2] < q[2])

\* C5: for n tables the generator yields n*(n-1)/2 elements, one per index
\* pair i < j, in lexicographic order, each with exactly the names present in
\* both table i and table j.
C5_PairwiseIntersections ==
    Drawing =>
        LET n == Len(dataframes)
        IN  /\ \A k \in DOMAIN gen.out :
                   LET i == gen.out[k].pair[1]
                       j == gen.out[k].pair[2]
                   IN  /\ 0 <= i /\ i < j /\ j < n
                       /\ gen.out[k].columns =
                              {c \in Names(MaxCommonNames) :
                                  /\ c \in Range(dataframes[i + 1].columns)
                                  /\ c \in Range(dataframes[j + 1].columns)}
            /\ \A k \in 1..(Len(gen.out) - 1) :
                   /\ LexBefore(gen.out[k].pair, gen.out[k + 1].pair)
                   /\ ~\E i, j \in 0..(n - 1) :
                          /\ i < j
                          /\ LexBefore(gen.out[k].pair, <<i, j>>)
                          /\ LexBefore(<<i, j>>, gen.out[k + 1].pair)
            /\ (gen.out # <<>>) => gen.out[1].pair = <<0, 1>>
            /\ gen.state = "exhausted" => 2 * Len(gen.out) = n * (n - 1)

\* Three tables drawn to the end: (0,1), (0,2), (1,2), with one pair of
\* identical column sets and one of disjoint ones.
C5_Witness ==
    /\ gen.state = "exhausted"
    /\ Len(dataframes) = 3
    /\ Len(gen.out) = 3
    /\ gen.out[2].pair = <<0, 2>>
    /\ gen.out[1].columns = Range(dataframes[1].columns)
    /\ gen.out[1].columns = Range(dataframes[2].columns)
    /\ gen.out[1].columns # {}
    /\ gen.out[3].columns = {}
    /\ dataframes[3].columns # <<>>

----------------------------------------------------------------------------
(* qqplot                                                                  *)

\* palette_dtypes.get(dtype, "#9b59b6")
Palette(dtype) ==
    CASE dtype = "object"  -> "#fd7272"
      [] dtype = "float32" -> "#00b894"
      [] dtype = "float64" -> "#60a3bc"
      [] dtype = "int64"   -> "#ff9f1a"
      [] dtype = "int32"   -> "#fed330"
      [] OTHER             -> "#9b59b6"

\* data.select_dtypes(exclude="object")
SelectNumeric(t) ==
    GetColumns(t, SelectSeq(t.columns, LAMBDA c : t.dtypes[c] # "object"))

GridWidth == 5

Min(a, b) == IF a < b THEN a ELSE b

FigNcol(ncol) == Min(GridWidth, ncol)

\* (ncol % fig_ncol != 0) + ncol // fig_ncol; fig_ncol is a numpy integer,
\* for which a zero divisor gives 0 (with a warning).
FigNrow(ncol) ==
    IF FigNcol(ncol) = 0 THEN 0
    ELSE (IF ncol % FigNcol(ncol) # 0 THEN 1 ELSE 0) + ncol \div FigNcol(ncol)

\* What plt.subplots(nrow, ncol) returns for its axes (squeeze=True): the
\* Axes itself for a 1 x 1 grid, a 1-D array when one side is 1, else 2-D.
AxShape(nrow, ncol) ==
    IF nrow = 1 /\ ncol = 1 THEN "axes"
    ELSE IF nrow = 1 \/ ncol = 1 THEN "1d"
    ELSE "2d"

\* ax[r][c] if fig_nrow > 1 else ax[c]: whether the subscripts fit the shape.
CanIndex(shape, nrow) == IF nrow > 1 THEN shape = "2d" ELSE shape = "1d"

\* The j-th pair (0-based) of ((p, q) for p in count(0) for q in range(w)).
Cell(j, w) == <<j \div w, j % w>>

\* make_plot: one quantile-quantile plot drawn into the axes at the cell.
MakePlot(t, column, cell) ==
    [cell |-> cell, title |-> column, color |-> Palette(t.dtypes[column])]

RECURSIVE PlotLoop(_, _, _, _)
\* The for loop of plot_frame from column j (1-based): the plots drawn so
\* far and, if subscripting the axes fails, the error.
PlotLoop(t, j, shape, plots) ==
    IF j > NCol(t) THEN [plots |-> plots, error |-> ""]
    ELSE IF ~CanIndex(shape, FigNrow(NCol(t)))
    THEN [plots |-> plots, error |-> "TypeError"]
    ELSE PlotLoop(t, j + 1, shape,
                  Append(plots, MakePlot(t, t.columns[j], Cell(j - 1, FigNcol(NCol(t))))))

\* plot_frame: the figure it leaves and the error it raises, "" for none.
\* The figure size is in tenths of an inch.
plot_frame(t) ==
    LET w == FigNcol(NCol(t))
        h == FigNrow(NCol(t))
    IN  IF w = 0 \/ h = 0
        \* plt.subplots refuses a grid without rows or columns
        THEN [figure |-> NoFigure, error |-> "ValueError"]
        ELSE LET l == PlotLoop(t, 1, AxShape(h, w), <<>>)
             IN  [figure |-> [kind |-> "figure", nrow |-> h, ncol |-> w,
                              size |-> <<190, 36 * h>>, plots |-> l.plots],
                  error |-> l.error]

\* plot_series: one plot into plt.subplot(), titled with the series' name.
plot_series(t) ==
    [figure |-> [kind |-> "figure", nrow |-> 1, ncol |-> 1, size |-> <<>>,
                 plots |-> <<MakePlot(t, t.columns[1], <<0, 0>>)>>],
     error |-> ""]

\* qqplot(data): data is a table ("frame"), one column of it ("series") or
\* something else.
qqplot(t, kind) ==
    IF kind = "frame" THEN plot_frame(SelectNumeric(t))
    ELSE IF kind = "series" THEN plot_series(t)
    ELSE [figure |-> NoFigure, error |-> "TypeError"]

----------------------------------------------------------------------------
(* qqplot as a state machine: the caller plots its table, a column of it,  *)
(* or something that is neither.                                           *)

PlotTable(k, dt) ==
    [ColumnTable(FirstNames(k), 2) EXCEPT !.dtypes = dt]

PlotTables ==
    UNION {{PlotTable(k, dt) : dt \in [Names(k) -> {"object", "float64"}]} :
              k \in 0..MaxPlotCols}

InitPlot ==
    /\ frame \in PlotTables
    /\ old = frame
    /\ dataframes = <<>>
    /\ Idle

QQPlot ==
    /\ Ready
    /\ \E kind \in {"frame", "series", "other"} :
        /\ kind = "series" => NCol(frame) > 0
        /\ LET arg == IF kind = "series" THEN GetColumns(frame, <<frame.columns[1]>>)
                      ELSE frame
               o == qqplot(arg, kind)
           IN  /\ op' = [name |-> "qqplot", kind |-> kind]
               /\ figure' = o.figure
               /\ ret' = IF o.error = "" THEN None ELSE Raise(o.error)
        /\ old' = frame
        /\ UNCHANGED <<frame, log, stdout, dataframes, gen>>

NextPlot == QQPlot \/ Forget

SpecPlot == InitPlot /\ [][NextPlot]_vars

----------------------------------------------------------------------------
(* Claims about qqplot, checked under SpecPlot.                            *)

PlottedFrame == op.name = "qqplot" /\ op.kind = "frame"

\* The columns left after the text/object columns are excluded.
Remaining == SelectSeq(old.columns, LAMBDA c : old.dtypes[c] # "object")

GridRows == IF figure.kind = "figure" THEN figure.nrow ELSE 0

GridCols == IF figure.kind = "figure" THEN figure.ncol ELSE 0

Plots == IF figure.kind = "figure" THEN figure.plots ELSE <<>>

\* C9: for a table with k columns left after the object columns are
\* excluded, the grid has min(5, k) plots per row and ceil(k / 5) rows, and
\* one plot is rendered per remaining column, the j-th (0-based) into cell
\* (j div 5, j mod 5).
C9_OnePlotPerColumn ==
    PlottedFrame =>
        LET k == Len(Remaining)
        IN  /\ GridCols = Min(5, k)
            /\ GridRows = (k + 4) \div 5
            /\ Len(Plots) = k
            /\ \A j \in 0..(k - 1) :
                   /\ Plots[j + 1].title = Remaining[j + 1]
                   /\ Plots[j + 1].cell = <<j \div 5, j % 5>>

----------------------------------------------------------------------------
(* frame_info                                                              *)

CountAll(vals) == Len(vals)

\* frame.isna().sum(axis=0), for one column.
CountNaN(vals) == Cardinality({i \in DOMAIN vals : vals[i] = NaN})

\* frame.count(), for one column.
CountNotNaN(vals) == Cardinality({i \in DOMAIN vals : vals[i] # NaN})

\* frame.nunique(), for one column: the distinct values, missing left out.
NUnique(vals) == Cardinality(Range(vals) \ {NaN})

\* A quotient of two counts, kept exact as <<numerator, denominator>>; a
\* zero denominator is pandas' NaN (0/0) or inf.
Frac(a, b) == <<a, b>>

SampleCapRows == 10000

SampleCapShown == 1000

\* max10k = np.min([10_000, nrow // 10])
Max10k(nrow) == Min(SampleCapRows, nrow \div 10)

\* n_samples = np.min([1_000, max10k, n_samples])
NSamples(nrow, n_samples) == Min(SampleCapShown, Min(Max10k(nrow), n_samples))

RECURSIVE UniqueAll(_)
\* Series.unique(): the distinct values in order of first appearance, a
\* missing entry among them.
UniqueAll(vals) ==
    IF vals = <<>> THEN <<>>
    ELSE LET n == Len(vals)
             u == UniqueAll(SubSeq(vals, 1, n - 1))
         IN  IF vals[n] \in Range(u) THEN u ELSE Append(u, vals[n])

\* list(x.unique()[:n]) for n >= 0.
FirstN(s, n) == SubSeq(s, 1, Min(Len(s), n))

\* The preview of column c: the first distinct values among the sampled rows
\* (pick: the rows frame.sample drew, in the order drawn).
Preview(df, c, pick, n) ==
    FirstN(UniqueAll([k \in DOMAIN pick |-> df.data[c][pick[k]]]), n)

\* The orders frame.sample(max10k) may draw: max10k different rows.
SamplePicks(df) ==
    {s \in [1..Max10k(NRow(df)) -> 1..NRow(df)] : NoDup(s)}

\* Whether the previews of all columns have one length.  DataFrame.agg then
\* builds a table of them, not a column of lists, wherever the pandas at hand
\* does not reduce a list-valued result, and the summary cannot be built.
PreviewsAlign(df, pick, n) ==
    \A c, d \in Range(df.columns) :
        Len(Preview(df, c, pick, n)) = Len(Preview(df, d, pick, n))

\* One row of the summary, for column c.
InfoRow(df, c, pick, n) ==
    LET vals == df.data[c]
    IN  [name        |-> c,
         dtype       |-> df.dtypes[c],
         samples     |-> Preview(df, c, pick, n),
         frac_nan    |-> Frac(CountNaN(vals), NRow(df)),
         num_nan     |-> CountNaN(vals),
         num_notnan  |-> CountNotNaN(vals),
         frac_unique |-> Frac(NUnique(vals), CountNotNaN(vals)),
         num_unique  |-> NUnique(vals)]

\* a > b for the quotient a = <<x, y>> and b = p / q; nothing compares with NaN.
FracGreater(a, p, q) == a[2] > 0 /\ a[1] * q > p * a[2]

FracLess(a, p, q) == a[2] > 0 /\ a[1] * q < p * a[2]

\* The cell styles of one row: bg_dtype, fg_frac_nan, fg_frac_unique.
StyleRow(row) ==
    [background  |-> Palette(row.dtype),
     frac_nan    |-> IF FracGreater(row.frac_nan, 1, 2) THEN "red" ELSE "black",
     frac_unique |-> IF FracLess(row.frac_unique, 1, 10) THEN "red" ELSE "black"]

\* pick is frame.sample's draw; lib says whether the installed pandas builds
\* the summary ("ok") or fails on the previews ("ValueError"), which it can
\* only where the previews align.  The outcome carries the line printed.
frame_info(df, n_samples, styling, pick, lib) ==
    LET n == NSamples(NRow(df), n_samples)
        rows == [k \in 1..NCol(df) |-> InfoRow(df, df.columns[k], pick, n)]
    IN  IF lib # "ok" /\ PreviewsAlign(df, pick, n)
        THEN [ret |-> Raise(lib), stdout |-> <<>>]
        ELSE [ret |-> IF ~styling
                      THEN [kind |-> "summary", rows |-> rows]
                      ELSE [kind |-> "styler", rows |-> rows,
                            styles |-> [k \in DOMAIN rows |-> StyleRow(rows[k])]],
              stdout |-> <<[nrow |-> NRow(df), ncol |-> NCol(df)]>>]

----------------------------------------------------------------------------
(* frame_info as a state machine.                                          *)

\* A column of n rows: z missing entries first, then values cycling through
\* m of them.
PatternColumn(n, z, m) == [i \in 1..n |-> IF i <= z THEN NaN ELSE 1 + (i % m)]

LongColumns(n) == {PatternColumn(n, z, m) : z \in {0, 1, n}, m \in {1, 2}}

\* Small tables of every content, and long ones (ten rows and more, so that
\* rows are sampled) of patterned columns.
InfoTables ==
    CatTables
    \cup {ColumnTable(<<>>, n) : n \in {0, 2}}
    \cup UNION {{DataTable(FirstNames(k), dat) : dat \in [Names(k) -> LongColumns(n)]} :
                   <<k, n>> \in (1..2) \X (10..MaxInfoRows)}

InitInfo ==
    /\ frame \in InfoTables
    /\ old = frame
    /\ dataframes = <<>>
    /\ Idle

FrameInfo ==
    /\ Ready
    /\ \E n_samples \in {0, 1, 33}, styling \in BOOLEAN, lib \in {"ok", "ValueError"} :
        \E pick \in SamplePicks(frame) :
            LET o == frame_info(frame, n_samples, styling, pick, lib)
            IN  /\ op' = [name |-> "frame_info", n_samples |-> n_samples,
                          styling |-> styling, pick |-> pick]
                /\ ret' = o.ret
                /\ stdout' = o.stdout
                /\ old' = frame
                /\ UNCHANGED <<frame, log, dataframes, gen, figure>>

NextInfo == FrameInfo \/ Forget

SpecInfo == InitInfo /\ [][NextInfo]_vars

----------------------------------------------------------------------------
(* Claims about frame_info, checked under SpecInfo.                        *)

RawSummary == op.name = "frame_info" /\ ~op.styling /\ ret.kind = "summary"

\* C8: the raw summary frame_info returns has exactly one row per column of
\* the table, and in every row num_nan + num_notnan is the table's row count.
C8_SummaryCounts ==
    RawSummary =>
        /\ Len(ret.rows) = NCol(old)
        /\ \A k \in 1..NCol(old) :
               /\ ret.rows[k].name = old.columns[k]
               /\ ret.rows[k].num_nan + ret.rows[k].num_notnan = NRow(old)

\* A sampled table of two columns, one with a missing entry and one without.
C8_Witness ==
    /\ RawSummary
    /\ NRow(old) >= 10 /\ NCol(old) = 2
    /\ ret.rows[1].num_nan = 1
    /\ ret.rows[2].num_nan = 0
    /\ ret.rows[1].samples # <<>>

====
